---- MODULE Spec2Model ----
(***************************************************************************)
(* Model of MEGAETH_CHECKER (src/main.py): MegaEthChecker.check_all runs   *)
(* one check_address coroutine per (address, proxy) pair on a single       *)
(* asyncio event loop, bounded by asyncio.Semaphore(THREADS).              *)
(*                                                                         *)
(* A coroutine runs without interruption between two awaits, so one action *)
(* is one such stretch of check_address or of main.  The suspension points *)
(* are: the semaphore acquire (line 82), asyncio.sleep (line 86), the      *)
(* session.get request (line 92) and response.json() (line 97).            *)
(***************************************************************************)
EXTENDS Integers, Sequences, FiniteSets, TLC

\* ------------------------------------------------------------- bounds
MaxAddresses == 3
MaxThreads == 2
\* Calls of check_all on one checker, and the batch size, where a checker is reused.
MaxCalls == 2
MaxReuseAddresses == 2
\* Lines of data/proxies.txt where load_proxies is checked on its own.
MaxProxyLines == 2
\* Lines of the address source where the whole of main is run.
MaxSourceLines == 3

\* ------------------------------------------------------------- inputs
\* The addresses load_addresses finds, in file order; the same address may
\* occur on more than one line.  A run reads the first n of them.
AddressLines == <<"0xA", "0xB", "0xA", "0xC", "0xB">>
AddressPool == {AddressLines[k] : k \in DOMAIN AddressLines}
\* Python's None (load_proxies returns [None] * n without a proxy file).
None == "<None>"
\* data/proxies.txt: missing, or holding these lines.
ProxyFiles == {[exists |-> FALSE, lines |-> <<>>],
               [exists |-> TRUE, lines |-> <<"p1", "p2", "p3", "p4", "p5">>]}

\* Raw lines of data/addresses.txt and of data/private_keys.txt for a whole
\* run of main (a blank line among them; "bad" is no private key).
SourceAddressLines == <<"0xA", "   ", "0xB", "0xA", "0xC">>
SourceKeyLines == <<"k1", "bad", "k2", "k1", "k2">>

\* Raw lines a proxy file is made of: a proxy, a proxy with blanks around it,
\* a blank line.
ProxyLinePool == {"p1", " p2 ", "   "}

\* What data.get('isWhitelisted', False) can find: no such field, a boolean,
\* or a value of another JSON type (here a non-empty string).
FieldValues == {"absent", "true", "false", "str:yes"}

\* config.PAUSES: the pacing range [min, max], in seconds, min <= max.
PAUSES == <<0, 2>>

\* Exceptions the awaits of lines 92-98 raise.
RequestErrors == {"TimeoutError", "ClientConnectorError", "ClientHttpProxyError"}
JsonErrors == {"ContentTypeError", "JSONDecodeError", "AttributeError"}

VARIABLES
    THREADS,                \* config.THREADS
    SHUFFLE,                \* config.SHUFFLE
    addresses,              \* main: addresses = load_addresses()
    proxies,                \* main: proxies = load_proxies(len(addresses))
    session,                \* self.session: "none", "open", "closed"
    whitelisted_addresses,  \* self.whitelisted_addresses
    value,                  \* self.semaphore._value
    waiters,                \* self.semaphore._waiters, first come first
    woken,                  \* waiters whose future is done and that have not resumed
    tasks,                  \* check_all: the coroutines handed to gather, in check_index order
    pc,                     \* where each check_address coroutine stands
    resp,                   \* per task, what its request came back with
    events,                 \* per task, what it did so far, in order
    mainpc,                 \* where main stands
    csv,                    \* rows of the results file, <<>> while it is not written
    USE_ADDRESS_FILE,       \* config.USE_ADDRESS_FILE
    address_file,           \* data/addresses.txt or data/private_keys.txt, as on disk
    proxy_file,             \* data/proxies.txt, as on disk
    calls                   \* how many times check_all was called on the checker

vars == <<THREADS, SHUFFLE, addresses, proxies, session, whitelisted_addresses,
          value, waiters, woken, tasks, pc, resp, events, mainpc, csv,
          USE_ADDRESS_FILE, address_file, proxy_file, calls>>

config == <<THREADS, SHUFFLE, addresses, proxies>>
semaphore == <<value, waiters, woken>>
\* What the run finds on disk and in config.py besides THREADS and SHUFFLE.
env == <<USE_ADDRESS_FILE, address_file, proxy_file>>

\* ------------------------------------------------------------ helpers
Min(a, b) == IF a <= b THEN a ELSE b

\* A zip that loses the last pair.
ZipDropsLast(a, b) == [k \in 1..(Min(Len(a), Len(b)) - 1) |-> <<a[k], b[k]>>]

\* Python's zip: as long as the shorter argument.
Zip(a, b) == [k \in 1..Min(Len(a), Len(b)) |-> <<a[k], b[k]>>]

\* Python's enumerate(s, start).
Enumerate(s, start) == [k \in 1..Len(s) |-> <<start + k - 1, s[k]>>]

\* random.randint(a, b): any integer of a..b.
RandInt(a, b) == a..b

Injective(p) == \A a, b \in DOMAIN p : a # b => p[a] # p[b]

\* A draw with replacement (random.choices) in place of a shuffle.
ShuffledWithReplacement(s) == {[k \in 1..Len(s) |-> s[p[k]]] : p \in [1..Len(s) -> 1..Len(s)]}

\* random.shuffle(s): every reordering of s.
Shuffled(s) == {[k \in 1..Len(s) |-> s[p[k]]] : p \in {q \in [1..Len(s) -> 1..Len(s)] : Injective(q)}}

\* s followed by every way to pad it to length n with members of pool
\* (lines 50-51: while len(proxies) < n: proxies.append(random.choice(proxies))).
RECURSIVE Padded(_, _, _)
Padded(s, pool, n) ==
    IF Len(s) >= n THEN {s}
    ELSE UNION {Padded(Append(s, x), pool, n) : x \in pool}

Range(s) == {s[k] : k \in DOMAIN s}

\* str.strip() on the lines the model knows.
Strip(l) == CASE l = " p2 " -> "p2"
              [] l = "   " -> ""
              [] OTHER -> l

\* [line.strip() for line in file.readlines() if line.strip()]
ReadLines(lines) ==
    SelectSeq([k \in DOMAIN lines |-> Strip(lines[k])], LAMBDA l : l # "")

\* Account.from_key(pk): the private keys that have an address (any other
\* string raises), and the address of each.
IsKey(pk) == pk \in {"k1", "k2"}
FromKey(pk) == IF pk = "k1" THEN "0xA" ELSE "0xB"

\* Lines 33-40: the addresses of the keys that have one, in file order.
RECURSIVE KeysToAddresses(_)
KeysToAddresses(private_keys) ==
    IF private_keys = <<>> THEN <<>>
    ELSE (IF IsKey(Head(private_keys)) THEN <<FromKey(Head(private_keys))>> ELSE <<>>)
            \o KeysToAddresses(Tail(private_keys))

\* All sequences over S of length at most n.
SeqsUpTo(S, n) == UNION {[1..m -> S] : m \in 0..n}

\* data/proxies.txt in every shape of at most MaxProxyLines lines, or missing.
ProxyFileContents ==
    {[exists |-> FALSE, lines |-> <<>>]}
       \cup {[exists |-> TRUE, lines |-> l] : l \in SeqsUpTo(ProxyLinePool, MaxProxyLines)}

\* load_proxies(num_addresses), lines 42-59: what it can return for a file f.
\* random.choice draws from the list as padded so far, whose members are
\* those of the file.
LoadProxies(f, num_addresses) ==
    IF ~f.exists \/ ReadLines(f.lines) = <<>>
    THEN {[k \in 1..num_addresses |-> None]}
    ELSE {SubSeq(p, 1, num_addresses) :
             p \in Padded(ReadLines(f.lines), Range(ReadLines(f.lines)), num_addresses)}

\* An assignment in place of an append: what was collected before is lost.
ListAppendLost(l, x) == <<x>>

\* list.append
ListAppend(l, x) == Append(l, x)

\* The test the wrong way round (if not is_whitelisted:).
IsTruthyInverted(v) == v \in {"false", "null", "num:0", "str:"}

\* Python's truth value of a JSON value (if is_whitelisted:).
IsTruthy(v) == v \notin {"false", "null", "num:0", "str:"}

\* except aiohttp.ClientError: timeouts and parse errors get through.
CaughtClientErrorOnly(e) == e \in {"ClientConnectorError", "ClientHttpProxyError", "ContentTypeError"}

\* except Exception: every exception but the BaseException-only ones.
Caught(e) == e \notin {"CancelledError", "KeyboardInterrupt", "SystemExit"}

Count(s, e) == Len(SelectSeq(s, LAMBDA x : x = e))

Ids == DOMAIN tasks

\* ---------------------------------------------------------- semaphore
\* asyncio.Semaphore as `async with self.semaphore` uses it.

\* A semaphore that never makes anyone wait.
locked_never == FALSE

\* Semaphore.locked(): no slot is free, or somebody is already queued.
locked == value = 0 \/ waiters # <<>>

\* The waiter queued last among those whose future is not done yet.
LastPending(ws, wk) ==
    IF \E k \in DOMAIN ws : ws[k] \notin wk
    THEN ws[CHOOSE k \in DOMAIN ws :
               ws[k] \notin wk /\ \A m \in (k + 1)..Len(ws) : ws[m] \in wk]
    ELSE 0

\* The first queued waiter whose future is not done yet (0: there is none).
FirstPending(ws, wk) ==
    IF \E k \in DOMAIN ws : ws[k] \notin wk
    THEN ws[CHOOSE k \in DOMAIN ws : ws[k] \notin wk /\ \A m \in 1..(k - 1) : ws[m] \in wk]
    ELSE 0

\* Semaphore._wake_up_next(): hand a slot to the first pending waiter.
WakeUpNext(v, ws, wk) ==
    IF FirstPending(ws, wk) # 0
    THEN [value |-> v - 1, woken |-> wk \cup {FirstPending(ws, wk)}]
    ELSE [value |-> v, woken |-> wk]

\* Semaphore.release(): give the slot back, then wake the next waiter.
Release(v, ws, wk) == WakeUpNext(v + 1, ws, wk)

\* The end of Semaphore.acquire() in a waiter that resumes:
\* while self._value > 0: if not self._wake_up_next(): break
RECURSIVE WakeWhile(_, _, _)
WakeWhile(v, ws, wk) ==
    IF v > 0 /\ FirstPending(ws, wk) # 0
    THEN WakeWhile(v - 1, ws, wk \cup {FirstPending(ws, wk)})
    ELSE [value |-> v, woken |-> wk]

RemoveWaiter(ws, i) == SelectSeq(ws, LAMBDA w : w # i)

\* --------------------------------------------------------------- init
Init ==
    /\ THREADS \in 1..MaxThreads
    /\ SHUFFLE \in BOOLEAN
    /\ \E n \in 0..MaxAddresses :
          /\ n <= Len(AddressLines)
          /\ addresses = SubSeq(AddressLines, 1, n)
          /\ USE_ADDRESS_FILE = TRUE
          /\ address_file = [exists |-> TRUE, lines |-> addresses]
          /\ proxy_file \in ProxyFiles
          /\ proxies \in LoadProxies(proxy_file, n)
    /\ session = "none"
    /\ whitelisted_addresses = <<>>
    /\ value = THREADS
    /\ waiters = <<>>
    /\ woken = {}
    /\ tasks = <<>>
    /\ pc = <<>>
    /\ resp = <<>>
    /\ events = <<>>
    /\ mainpc = "start"
    /\ csv = <<>>
    /\ calls = 0

\* --------------------------------------------------------------- main
\* async with MegaEthChecker() as checker: __aenter__ opens the session.
Enter ==
    /\ mainpc = "start"
    /\ session' = "open"
    /\ mainpc' = "entered"
    /\ UNCHANGED <<config, env, calls, whitelisted_addresses, semaphore, tasks, pc, resp, events, csv>>

\* check_all, lines 112-115: the pairs with their original indices, shuffled or not.
CheckData(check_data) == IF SHUFFLE THEN Shuffled(check_data) ELSE {check_data}

\* The original index taken from the place in the shuffled list.
MakeTasksReindexed(check_data) ==
    LET e == Enumerate(check_data, 0)
    IN  [k \in 1..Len(e) |->
            [check_index    |-> e[k][1] + 1,
             original_index |-> e[k][1] + 1,
             address        |-> e[k][2][2][1],
             proxy          |-> e[k][2][2][2]]]

\* check_all, lines 117-125: one check_address coroutine per entry of check_data.
MakeTasks(check_data) ==
    LET e == Enumerate(check_data, 0)
    IN  [k \in 1..Len(e) |->
            [check_index    |-> e[k][1] + 1,
             original_index |-> e[k][2][1],
             address        |-> e[k][2][2][1],
             proxy          |-> e[k][2][2][2]]]

\* check_all up to its await: gather schedules every coroutine, in order.
CheckAll ==
    /\ mainpc = "entered"
    /\ \E check_data \in CheckData(Enumerate(Zip(addresses, proxies), 1)) :
          tasks' = MakeTasks(check_data)
    /\ pc' = [i \in DOMAIN tasks' |-> "created"]
    /\ resp' = [i \in DOMAIN tasks' |-> "pending"]
    /\ events' = [i \in DOMAIN tasks' |-> <<>>]
    /\ mainpc' = "gather"
    /\ calls' = calls + 1
    /\ UNCHANGED <<config, env, session, whitelisted_addresses, semaphore, csv>>

\* ------------------------------------------------------ check_address
\* The loop runs the first step of every coroutine, in the order gather
\* scheduled them, before anything that was suspended resumes.
AllStarted == \A j \in Ids : pc[j] # "created"

\* Lines 82-86 when acquire() does not wait: take a slot, draw the pause, sleep.
\* Otherwise line 82 queues the coroutine on the semaphore.
Start(i) ==
    /\ mainpc = "gather"
    /\ pc[i] = "created"
    /\ \A j \in Ids : j < i => pc[j] # "created"
    /\ IF ~locked
       THEN /\ \E pause_time \in RandInt(PAUSES[1], PAUSES[2]) : TRUE
            /\ value' = value - 1
            /\ pc' = [pc EXCEPT ![i] = "sleep"]
            /\ events' = [events EXCEPT ![i] = @ \o <<"acquire", "sleep">>]
            /\ UNCHANGED <<waiters, woken>>
       ELSE /\ waiters' = Append(waiters, i)
            /\ pc' = [pc EXCEPT ![i] = "waiting"]
            /\ UNCHANGED <<value, woken, events>>
    /\ UNCHANGED <<config, env, calls, session, whitelisted_addresses, tasks, resp, mainpc, csv>>

\* The woken waiter the loop resumes next: futures are resolved in queue
\* order and the loop runs the callbacks in the order they were scheduled.
FirstWoken(ws, wk) ==
    IF \E k \in DOMAIN ws : ws[k] \in wk
    THEN ws[CHOOSE k \in DOMAIN ws : ws[k] \in wk /\ \A m \in 1..(k - 1) : ws[m] \notin wk]
    ELSE 0

\* Lines 82-86 in a waiter a release woke: acquire() returns, then as above.
Resume(i) ==
    /\ AllStarted
    /\ pc[i] = "waiting"
    /\ i \in woken
    /\ i = FirstWoken(waiters, woken)
    /\ \E pause_time \in RandInt(PAUSES[1], PAUSES[2]) : TRUE
    /\ LET ws == RemoveWaiter(waiters, i)
           s  == WakeWhile(value, ws, woken \ {i})
       IN  /\ waiters' = ws
           /\ value' = s.value
           /\ woken' = s.woken
    /\ pc' = [pc EXCEPT ![i] = "sleep"]
    /\ events' = [events EXCEPT ![i] = @ \o <<"acquire", "sleep">>]
    /\ UNCHANGED <<config, env, calls, session, whitelisted_addresses, tasks, resp, mainpc, csv>>

\* Lines 86-92: the sleep is over, the GET is sent.
SleepDone(i) ==
    /\ AllStarted
    /\ pc[i] = "sleep"
    /\ pc' = [pc EXCEPT ![i] = "request"]
    /\ events' = [events EXCEPT ![i] = Append(@, "request")]
    /\ UNCHANGED <<config, env, calls, session, whitelisted_addresses, semaphore, tasks, resp, mainpc, csv>>

\* A failed check tried once more before it is given up.
ExceptRetries(i, e) ==
    IF Count(events[i], "request") < 2
    THEN /\ pc' = [pc EXCEPT ![i] = "request"]
         /\ events' = [events EXCEPT ![i] = Append(@, "request")]
         /\ UNCHANGED <<config, env, calls, session, whitelisted_addresses, semaphore, tasks, resp, mainpc, csv>>
    ELSE /\ LET s == Release(value, waiters, woken)
            IN  /\ value' = s.value
                /\ woken' = s.woken
         /\ pc' = [pc EXCEPT ![i] = "done"]
         /\ events' = [events EXCEPT ![i] = @ \o <<"error", "release">>]
         /\ resp' = [resp EXCEPT ![i] = "error"]
         /\ UNCHANGED <<config, env, calls, session, whitelisted_addresses, waiters, tasks, mainpc, csv>>

\* The slot acquired and released by hand, with no release on the error path.
ExceptLeaks(i, e) ==
    /\ pc' = [pc EXCEPT ![i] = "done"]
    /\ events' = [events EXCEPT ![i] = Append(@, "error")]
    /\ resp' = [resp EXCEPT ![i] = "error"]
    /\ UNCHANGED <<config, env, calls, session, whitelisted_addresses, semaphore, tasks, mainpc, csv>>

\* An exception e raised inside the try of lines 88-106: line 107 catches it
\* and logs it, or it leaves check_address; either way the async with of
\* line 82 releases the slot on the way out.
Except(i, e) ==
    /\ LET s == Release(value, waiters, woken)
       IN  /\ value' = s.value
           /\ woken' = s.woken
    /\ IF Caught(e)
       THEN /\ pc' = [pc EXCEPT ![i] = "done"]
            /\ events' = [events EXCEPT ![i] = @ \o <<"error", "release">>]
       ELSE /\ pc' = [pc EXCEPT ![i] = "raised"]
            /\ events' = [events EXCEPT ![i] = @ \o <<"release">>]
    /\ resp' = [resp EXCEPT ![i] = "error"]
    /\ UNCHANGED <<config, env, calls, session, whitelisted_addresses, waiters, tasks, mainpc, csv>>

\* Line 92: the request fails (timeout, connection, proxy).
RequestFails(i) ==
    /\ pc[i] = "request"
    /\ \E e \in RequestErrors :
          /\ e = "ClientHttpProxyError" => tasks[i].proxy # None
          /\ Except(i, e)

\* Lines 92-97: the response arrives, its body is being read.
ResponseArrives(i) ==
    /\ pc[i] = "request"
    /\ pc' = [pc EXCEPT ![i] = "json"]
    /\ UNCHANGED <<config, env, calls, session, whitelisted_addresses, semaphore, tasks, resp, events, mainpc, csv>>

\* Lines 97-98: the body is no JSON, or no JSON object.
JsonFails(i) ==
    /\ pc[i] = "json"
    /\ \E e \in JsonErrors : Except(i, e)

\* The slot given back as soon as the body is read, the status logged and
\* the address appended after that.
JsonReturnsRecordsLate(i) ==
    /\ pc[i] = "json"
    /\ \E v \in FieldValues :
          LET is_whitelisted == IF v = "absent" THEN "false" ELSE v
          IN  /\ resp' = [resp EXCEPT ![i] = v]
              /\ IF IsTruthy(is_whitelisted)
                 THEN /\ whitelisted_addresses' = ListAppend(whitelisted_addresses, tasks[i].address)
                      /\ events' = [events EXCEPT ![i] = @ \o <<"release", "WHITELISTED", "append">>]
                 ELSE /\ UNCHANGED whitelisted_addresses
                      /\ events' = [events EXCEPT ![i] = @ \o <<"release", "NOT WHITELISTED">>]
    /\ LET s == Release(value, waiters, woken)
       IN  /\ value' = s.value
           /\ woken' = s.woken
    /\ pc' = [pc EXCEPT ![i] = "done"]
    /\ UNCHANGED <<config, env, calls, session, waiters, tasks, mainpc, csv>>

\* Lines 97-105 and the exit of line 82: the body is a JSON object whose
\* isWhitelisted is v; log the status, append when it is truthy, release.
JsonReturns(i) ==
    /\ pc[i] = "json"
    /\ \E v \in FieldValues :
          LET is_whitelisted == IF v = "absent" THEN "false" ELSE v
          IN  /\ resp' = [resp EXCEPT ![i] = v]
              /\ IF IsTruthy(is_whitelisted)
                 THEN /\ whitelisted_addresses' = ListAppend(whitelisted_addresses, tasks[i].address)
                      /\ events' = [events EXCEPT ![i] = @ \o <<"WHITELISTED", "append", "release">>]
                 ELSE /\ UNCHANGED whitelisted_addresses
                      /\ events' = [events EXCEPT ![i] = @ \o <<"NOT WHITELISTED", "release">>]
    /\ LET s == Release(value, waiters, woken)
       IN  /\ value' = s.value
           /\ woken' = s.woken
    /\ pc' = [pc EXCEPT ![i] = "done"]
    /\ UNCHANGED <<config, env, calls, session, waiters, tasks, mainpc, csv>>

\* ---------------------------------------------------- gather and after
\* A wait that is over with the first coroutine that is.
GatherOverFirst == \E i \in Ids : pc[i] \in {"done", "raised"}

\* gather (line 126) is over once every coroutine is, or once one raised.
GatherOver == (\A i \in Ids : pc[i] = "done") \/ (\E i \in Ids : pc[i] = "raised")

\* Lines 126-127: check_all returns self.whitelisted_addresses, or raises
\* what a coroutine raised.
GatherDone ==
    /\ mainpc = "gather"
    /\ GatherOver
    /\ mainpc' = IF \E i \in Ids : pc[i] = "raised" THEN "raised" ELSE "returned"
    /\ UNCHANGED <<config, env, calls, session, whitelisted_addresses, semaphore, tasks, pc, resp, events, csv>>

\* check_all called without await: the block is left while the tasks run.
ExitWithoutWaiting ==
    /\ mainpc \in {"gather", "returned", "raised"}
    /\ session' = "closed"
    /\ mainpc' = IF mainpc = "raised" THEN "crashed" ELSE "exited"
    /\ UNCHANGED <<config, env, calls, whitelisted_addresses, semaphore, tasks, pc, resp, events, csv>>

\* Line 133 on the way out: __aexit__ closes the session.
Exit ==
    /\ mainpc \in {"returned", "raised"}
    /\ session' = "closed"
    /\ mainpc' = IF mainpc = "returned" THEN "exited" ELSE "crashed"
    /\ UNCHANGED <<config, env, calls, whitelisted_addresses, semaphore, tasks, pc, resp, events, csv>>

\* Lines 136-148: the results file, one row per entry of whitelisted.
Report ==
    /\ mainpc = "exited"
    /\ csv' = <<"Address">> \o whitelisted_addresses
    /\ mainpc' = "reported"
    /\ UNCHANGED <<config, env, calls, session, whitelisted_addresses, semaphore, tasks, pc, resp, events>>

\* Line 127 (and line 134): the list check_all returns, once it has returned.
Returned == mainpc \in {"returned", "exited", "reported"}
ReturnValue == whitelisted_addresses

Next ==
    \/ Enter
    \/ CheckAll
    \/ \E i \in Ids : Start(i)
    \/ \E i \in Ids : Resume(i)
    \/ \E i \in Ids : SleepDone(i)
    \/ \E i \in Ids : RequestFails(i)
    \/ \E i \in Ids : ResponseArrives(i)
    \/ \E i \in Ids : JsonFails(i)
    \/ \E i \in Ids : JsonReturns(i)
    \/ GatherDone
    \/ Exit
    \/ Report

Spec == Init /\ [][Next]_vars

\* ------------------------------------------------------------- claims
Started == mainpc \notin {"start", "entered"}

\* Tasks holding a slot: acquire() has returned and release() has not run.
Holding == {i \in Ids : Count(events[i], "acquire") > Count(events[i], "release")}
\* Tasks in their pacing sleep or in their request.
InFlight == {i \in Ids : pc[i] \in {"sleep", "request", "json"}}

\* What a task came to: a logged status, or a logged error.
Outcomes(i) ==
    Len(SelectSeq(events[i], LAMBDA x : x \in {"WHITELISTED", "NOT WHITELISTED", "error"}))

Errored == {i \in Ids : resp[i] = "error"}

\* C1: at no time do more than THREADS tasks hold a semaphore slot, that is,
\* are in their pacing sleep or in their request; this stays so when the
\* waiters a release has already handed a slot to are counted in.
C1_ConcurrencyCap ==
    /\ Cardinality(Holding) <= THREADS
    /\ Cardinality(InFlight) <= THREADS
    /\ Cardinality(Holding \cup woken) <= THREADS
    /\ value >= 0

\* C1 witness: the cap is reached while another task waits for a slot.
C1_Witness ==
    /\ THREADS = 2
    /\ Cardinality(InFlight) = THREADS
    /\ \E i \in Ids : pc[i] = "waiting"

\* C2 as stated: check_all returns as many outcomes as tasks were submitted.
C2_ReturnsOneOutcomePerTask ==
    Returned => Len(ReturnValue) = Len(tasks)

\* C2 as amended: every (address, proxy) pair yields exactly one task, no task
\* ever has more than one outcome, and when check_all returns every task has
\* exactly one; what check_all returns is the whitelisted addresses only, at
\* most one per task.
C2_OneOutcomePerTask ==
    /\ Started =>
          /\ Len(tasks) = Len(addresses)
          /\ \A k \in DOMAIN addresses :
                Cardinality({i \in Ids : /\ tasks[i].original_index = k
                                         /\ tasks[i].address = addresses[k]
                                         /\ tasks[i].proxy = proxies[k]}) = 1
    /\ \A i \in Ids : Outcomes(i) <= 1
    /\ Returned =>
          /\ \A i \in Ids : Outcomes(i) = 1
          /\ Len(ReturnValue) = Cardinality({i \in Ids : Count(events[i], "WHITELISTED") = 1})
          /\ Len(ReturnValue) <= Len(tasks)

\* C2 witness: check_all has returned from a batch of three with one outcome
\* of each kind.
C2_Witness ==
    /\ mainpc = "returned"
    /\ Len(tasks) = 3
    /\ \E i, j, k \in Ids :
          /\ Count(events[i], "WHITELISTED") = 1
          /\ Count(events[j], "NOT WHITELISTED") = 1
          /\ Count(events[k], "error") = 1

\* C3: a task releases the slot it acquired exactly once, however
\* check_address ends; once the batch is over no slot is held.
C3_ReleasedExactlyOnce ==
    /\ \A i \in Ids :
          /\ Count(events[i], "release") <= Count(events[i], "acquire")
          /\ Count(events[i], "acquire") <= 1
          /\ pc[i] \in {"done", "raised"} =>
                Count(events[i], "acquire") = 1 /\ Count(events[i], "release") = 1
    /\ value + Cardinality(Holding) + Cardinality(woken) = THREADS
    /\ (Started /\ mainpc # "gather") => Holding = {} /\ value = THREADS

\* C3 witness: the batch is over, one task ended in an error, one whitelisted,
\* one not.
C3_Witness ==
    /\ mainpc = "returned"
    /\ value = THREADS
    /\ \E i, j, k \in Ids :
          /\ resp[i] = "error" /\ Count(events[i], "release") = 1
          /\ resp[j] = "true" /\ Count(events[j], "release") = 1
          /\ resp[k] = "false" /\ Count(events[k], "release") = 1

\* C4: check_all has not returned while a task is still waiting for a slot,
\* sleeping, or awaiting its response.
C4_ReturnsAfterAllTasks ==
    Returned => \A i \in Ids : pc[i] = "done" /\ Outcomes(i) = 1

\* C4 witness: check_all has returned from a batch of three that shared one slot.
C4_Witness ==
    /\ mainpc = "returned"
    /\ THREADS = 1
    /\ Len(tasks) = 3

\* C5: an error of a task's network check is caught in that task and counts as
\* not whitelisted; it leaves neither the task nor check_all, the other tasks
\* come to their own outcomes, and the batch goes on to its end.
C5_ErrorsStayInTheTask ==
    /\ mainpc \notin {"raised", "crashed"}
    /\ \A i \in Ids : pc[i] # "raised"
    /\ \A i \in Errored :
          /\ pc[i] = "done"
          /\ Count(events[i], "error") = 1
          /\ Count(events[i], "append") = 0
          /\ Count(events[i], "WHITELISTED") = 0
    /\ Returned => \A i \in Ids : Outcomes(i) = 1
    /\ (Errored # {} /\ mainpc = "gather") => ENABLED Next

\* C5 witness: the batch was reported although one task of three
\* failed; the two others have their own outcomes.
C5_Witness ==
    /\ mainpc = "reported"
    /\ Len(tasks) = 3
    /\ \E i \in Ids :
          /\ resp[i] = "error"
          /\ \A j \in Ids \ {i} : resp[j] \in {"true", "false"}

\* How often x occurs in the list l.
Occurrences(l, x) == Count(l, x)
TasksFor(a) == {i \in Ids : tasks[i].address = a}
Whitelisted == {i \in Ids : Count(events[i], "WHITELISTED") = 1}

\* C6: a task appends its address to whitelisted_addresses if and only if its
\* check reported WHITELISTED, and then once; no append is lost, whatever the
\* interleaving: at any time, and so at the end of the batch, the list holds
\* exactly one entry per task whose outcome was whitelisted.
C6_AppendIffWhitelisted ==
    /\ \A i \in Ids :
          Count(events[i], "append") = (IF i \in Whitelisted THEN 1 ELSE 0)
    /\ Len(whitelisted_addresses) = Cardinality(Whitelisted)
    /\ \A a \in AddressPool :
          Occurrences(whitelisted_addresses, a) = Cardinality(TasksFor(a) \cap Whitelisted)

\* C6 witness: two tasks that were in flight together are both in the list,
\* a third that was not whitelisted is not.
C6_Witness ==
    /\ THREADS = 2
    /\ mainpc = "returned"
    /\ Len(whitelisted_addresses) = 2
    /\ \E i \in Ids : Count(events[i], "NOT WHITELISTED") = 1

\* C7 as stated: an address the endpoint reports true for is exactly once in
\* the list check_all returns, one it reports false for is not in it.
C7_ExactlyOncePerAddress ==
    Returned =>
       \A i \in Ids :
          /\ resp[i] = "true" => Occurrences(ReturnValue, tasks[i].address) = 1
          /\ resp[i] = "false" => Occurrences(ReturnValue, tasks[i].address) = 0

\* C7 as amended: per occurrence in the input.  A task whose response reports
\* true appends its address once, one whose response reports false appends
\* nothing; an address all of whose occurrences are answered true is in the
\* returned list once per occurrence (exactly once when it occurs once in the
\* input), one all of whose occurrences are answered false is not in it.
C7_OncePerOccurrence ==
    Returned =>
       /\ \A i \in Ids :
             /\ resp[i] = "true" => Count(events[i], "append") = 1
             /\ resp[i] = "false" => Count(events[i], "append") = 0
       /\ \A a \in AddressPool :
             /\ (\A i \in TasksFor(a) : resp[i] = "true") =>
                   Occurrences(ReturnValue, a) = Cardinality(TasksFor(a))
             /\ (\A i \in TasksFor(a) : resp[i] = "false") =>
                   Occurrences(ReturnValue, a) = 0

\* C7 witness: an address that is twice in the input and answered true both
\* times is twice in the returned list; another, answered false, is not in it.
C7_Witness ==
    /\ mainpc = "returned"
    /\ addresses = <<"0xA", "0xB", "0xA">>
    /\ \A i \in Ids : resp[i] = (IF tasks[i].address = "0xA" THEN "true" ELSE "false")
    /\ Occurrences(ReturnValue, "0xA") = 2
    /\ Occurrences(ReturnValue, "0xB") = 0

\* C8 as stated: a response whose isWhitelisted is absent or not a boolean
\* counts as not whitelisted, and the address is not added.
C8_NonBooleanIsFalse ==
    \A i \in Ids :
       resp[i] \in FieldValues \ {"true", "false"} =>
          /\ Count(events[i], "WHITELISTED") = 0
          /\ Count(events[i], "append") = 0

\* C9: the original indices in dispatch order are a permutation of 1..N, with
\* SHUFFLE on or off; with SHUFFLE off check_index equals original_index.
C9_DispatchIsPermutation ==
    Started =>
       /\ Len(tasks) = Len(addresses)
       /\ \A i \in Ids : tasks[i].check_index = i
       /\ {tasks[i].original_index : i \in Ids} = 1..Len(addresses)
       /\ \A i, j \in Ids : i # j => tasks[i].original_index # tasks[j].original_index
       /\ ~SHUFFLE => \A i \in Ids : tasks[i].check_index = tasks[i].original_index

\* C9 witness: a shuffle that is not the identity.
C9_Witness ==
    /\ SHUFFLE
    /\ Started
    /\ Len(tasks) = 3
    /\ tasks[1].original_index = 3
    /\ tasks[2].original_index = 1

\* C10: a task sends exactly one request, whether it succeeds or fails: none
\* before its sleep is over, one from then on, never a second.
C10_OneRequestPerTask ==
    /\ \A i \in Ids :
          /\ Count(events[i], "request") <= 1
          /\ pc[i] \in {"created", "waiting", "sleep"} => Count(events[i], "request") = 0
          /\ pc[i] \in {"request", "json", "done"} => Count(events[i], "request") = 1
    /\ Returned => \A i \in Ids : Count(events[i], "request") = 1

\* C10 witness: the batch is over; a task whose request failed and a task
\* whose request succeeded sent one request each.
C10_Witness ==
    /\ mainpc = "exited"
    /\ \E i, j \in Ids :
          /\ resp[i] = "error" /\ Count(events[i], "request") = 1
          /\ resp[j] = "true" /\ Count(events[j], "request") = 1

\* ------------------------------------------------- a checker used twice
\* check_all called again on the same MegaEthChecker, with the same
\* arguments, once the call before has returned: lines 110-126 run again on
\* the object __init__ set up once.
CheckAllAgain ==
    /\ mainpc = "returned"
    /\ calls < MaxCalls
    /\ \E check_data \in CheckData(Enumerate(Zip(addresses, proxies), 1)) :
          tasks' = MakeTasks(check_data)
    /\ pc' = [i \in DOMAIN tasks' |-> "created"]
    /\ resp' = [i \in DOMAIN tasks' |-> "pending"]
    /\ events' = [i \in DOMAIN tasks' |-> <<>>]
    /\ mainpc' = "gather"
    /\ calls' = calls + 1
    /\ UNCHANGED <<config, env, session, whitelisted_addresses, semaphore, csv>>

InitReuse == Init /\ Len(addresses) <= MaxReuseAddresses

NextReuse == Next \/ CheckAllAgain

SpecReuse == InitReuse /\ [][NextReuse]_vars

\* C11 as stated: every call of check_all starts with an empty accumulator
\* and all THREADS slots free, and what it returns holds only addresses its
\* own tasks found whitelisted.
C11_RunOwnsItsState ==
    /\ (mainpc = "gather" /\ \A i \in Ids : pc[i] = "created") =>
          /\ whitelisted_addresses = <<>>
          /\ value = THREADS
          /\ waiters = <<>>
    /\ Returned =>
          \A a \in AddressPool :
             Occurrences(ReturnValue, a) = Cardinality(TasksFor(a) \cap Whitelisted)

\* ------------------------------------------------------- load_proxies
\* load_proxies(num_addresses) step by step, num_addresses = len(addresses).

\* A missing proxy file that nothing catches.
OpenProxiesUncaught ==
    /\ mainpc = "load_proxies"
    /\ IF ~proxy_file.exists
       THEN /\ mainpc' = "aborted"
            /\ UNCHANGED proxies
       ELSE IF ReadLines(proxy_file.lines) = <<>>
            THEN /\ proxies' = [k \in 1..Len(addresses) |-> None]
                 /\ mainpc' = "start"
            ELSE /\ proxies' = ReadLines(proxy_file.lines)
                 /\ mainpc' = "padding"
    /\ UNCHANGED <<THREADS, SHUFFLE, addresses, env, calls, session, whitelisted_addresses,
                   semaphore, tasks, pc, resp, events, csv>>

\* Lines 43-48 and 57-59: read the file; without a file, or without a proxy
\* in it, return num_addresses times None.
OpenProxies ==
    /\ mainpc = "load_proxies"
    /\ IF ~proxy_file.exists \/ ReadLines(proxy_file.lines) = <<>>
       THEN /\ proxies' = [k \in 1..Len(addresses) |-> None]
            /\ mainpc' = "start"
       ELSE /\ proxies' = ReadLines(proxy_file.lines)
            /\ mainpc' = "padding"
    /\ UNCHANGED <<THREADS, SHUFFLE, addresses, env, calls, session, whitelisted_addresses,
                   semaphore, tasks, pc, resp, events, csv>>

\* Lines 50-51: one turn of the loop that pads the list.
PadProxies ==
    /\ mainpc = "padding"
    /\ Len(proxies) < Len(addresses)
    /\ \E choice \in Range(proxies) : proxies' = Append(proxies, choice)
    /\ UNCHANGED <<THREADS, SHUFFLE, addresses, env, calls, session, whitelisted_addresses,
                   semaphore, tasks, pc, resp, events, mainpc, csv>>

\* The list returned as it is, however long.
ReturnProxiesUncut ==
    /\ mainpc = "padding"
    /\ Len(proxies) >= Len(addresses)
    /\ mainpc' = "start"
    /\ UNCHANGED <<config, env, calls, session, whitelisted_addresses,
                   semaphore, tasks, pc, resp, events, csv>>

\* Lines 53-56: the loop is over; cut the list to num_addresses, return it.
ReturnProxies ==
    /\ mainpc = "padding"
    /\ Len(proxies) >= Len(addresses)
    /\ proxies' = IF Len(proxies) > Len(addresses)
                  THEN SubSeq(proxies, 1, Len(addresses))
                  ELSE proxies
    /\ mainpc' = "start"
    /\ UNCHANGED <<THREADS, SHUFFLE, addresses, env, calls, session, whitelisted_addresses,
                   semaphore, tasks, pc, resp, events, csv>>

\* load_proxies on every proxy file, for every number of addresses, and the
\* batch main then builds from what it returned.
InitLoad ==
    /\ THREADS = 1
    /\ SHUFFLE \in BOOLEAN
    /\ USE_ADDRESS_FILE = TRUE
    /\ \E n \in 0..MaxAddresses :
          /\ n <= Len(AddressLines)
          /\ addresses = SubSeq(AddressLines, 1, n)
    /\ address_file = [exists |-> TRUE, lines |-> addresses]
    /\ proxy_file \in ProxyFileContents
    /\ proxies = <<>>
    /\ session = "none"
    /\ whitelisted_addresses = <<>>
    /\ value = THREADS
    /\ waiters = <<>>
    /\ woken = {}
    /\ tasks = <<>>
    /\ pc = <<>>
    /\ resp = <<>>
    /\ events = <<>>
    /\ mainpc = "load_proxies"
    /\ csv = <<>>
    /\ calls = 0

NextLoad ==
    \/ OpenProxies
    \/ PadProxies
    \/ ReturnProxies
    \/ Enter
    \/ CheckAll

SpecLoad == InitLoad /\ [][NextLoad]_vars

\* load_proxies has returned.
Loaded == mainpc \notin {"boot", "load_proxies", "padding", "aborted"}
\* The proxies the file holds.
Entries == ReadLines(proxy_file.lines)

\* C12: load_proxies returns exactly len(addresses) entries: all None when
\* the file is missing or holds no proxy; the file's entries in order, then
\* entries drawn from them, when it holds fewer; its first entries when it
\* holds more.  So the batch main builds has as many tasks as addresses and
\* as proxies.
C12_LoadProxiesLength ==
    /\ Loaded =>
          /\ Len(proxies) = Len(addresses)
          /\ proxies \in LoadProxies(proxy_file, Len(addresses))
          /\ (~proxy_file.exists \/ Entries = <<>>) =>
                \A k \in DOMAIN proxies : proxies[k] = None
          /\ (proxy_file.exists /\ Entries # <<>> /\ Len(Entries) < Len(addresses)) =>
                /\ SubSeq(proxies, 1, Len(Entries)) = Entries
                /\ \A k \in DOMAIN proxies : proxies[k] \in Range(Entries)
          /\ (proxy_file.exists /\ Entries # <<>> /\ Len(Entries) >= Len(addresses)) =>
                proxies = SubSeq(Entries, 1, Len(addresses))
    /\ mainpc = "gather" =>
          Len(tasks) = Len(addresses) /\ Len(tasks) = Len(proxies)

\* C12 witness: a file with one proxy (and a blank line) padded to three.
C12_Witness ==
    /\ mainpc = "gather"
    /\ Len(Entries) = 1
    /\ Len(proxy_file.lines) = 2
    /\ Len(proxies) = 3
    /\ Len(tasks) = 3

\* -------------------------------------------------- main from its start
\* load_addresses, lines 26-40: open() raises FileNotFoundError when the
\* source is missing and nothing in main catches it; else the addresses
\* are the lines, or the addresses of the lines that are private keys.
LoadAddresses ==
    /\ mainpc = "boot"
    /\ IF ~address_file.exists
       THEN /\ mainpc' = "aborted"
            /\ UNCHANGED addresses
       ELSE /\ addresses' = IF USE_ADDRESS_FILE
                            THEN ReadLines(address_file.lines)
                            ELSE KeysToAddresses(ReadLines(address_file.lines))
            /\ mainpc' = "load_proxies"
    /\ UNCHANGED <<THREADS, SHUFFLE, proxies, env, calls, session, whitelisted_addresses,
                   semaphore, tasks, pc, resp, events, csv>>

\* The process as asyncio.run(main()) finds it.
InitMain ==
    /\ THREADS \in 1..MaxThreads
    /\ SHUFFLE \in BOOLEAN
    /\ USE_ADDRESS_FILE \in BOOLEAN
    /\ \/ address_file = [exists |-> FALSE, lines |-> <<>>]
       \/ \E n \in 0..MaxSourceLines :
             /\ n <= Len(SourceAddressLines)
             /\ address_file =
                   [exists |-> TRUE,
                    lines |-> SubSeq(IF USE_ADDRESS_FILE THEN SourceAddressLines
                                     ELSE SourceKeyLines, 1, n)]
    /\ proxy_file \in {[exists |-> FALSE, lines |-> <<>>],
                      [exists |-> TRUE, lines |-> <<"p1">>]}
    /\ addresses = <<>>
    /\ proxies = <<>>
    /\ session = "none"
    /\ whitelisted_addresses = <<>>
    /\ value = THREADS
    /\ waiters = <<>>
    /\ woken = {}
    /\ tasks = <<>>
    /\ pc = <<>>
    /\ resp = <<>>
    /\ events = <<>>
    /\ mainpc = "boot"
    /\ csv = <<>>
    /\ calls = 0

NextMain ==
    \/ LoadAddresses
    \/ OpenProxies
    \/ PadProxies
    \/ ReturnProxies
    \/ Next

\* What the event loop and the network are relied on for: main and every
\* coroutine that can go on does go on (a ready callback is run, a sleep
\* ends), and every request and every read of a body ends, well or badly.
MainStep ==
    \/ LoadAddresses \/ OpenProxies \/ PadProxies \/ ReturnProxies
    \/ Enter \/ CheckAll \/ GatherDone \/ Exit \/ Report

FairMain ==
    /\ WF_vars(MainStep)
    /\ \A i \in 1..MaxSourceLines :
          /\ WF_vars(i \in Ids /\ (Start(i) \/ Resume(i) \/ SleepDone(i)))
          /\ WF_vars(i \in Ids /\ (RequestFails(i) \/ ResponseArrives(i)))
          /\ WF_vars(i \in Ids /\ (JsonFails(i) \/ JsonReturns(i)))

SpecMain == InitMain /\ [][NextMain]_vars /\ FairMain

\* C13: the run aborts only for a missing address source, and then before
\* anything else: no session, no task, no slot taken, no request, no results
\* file.  With the source there, a missing proxy file, keys without an
\* address or errors in the tasks never abort it: it goes on to the report.
C13_OnlyMissingSourceAborts ==
    /\ [](~address_file.exists => mainpc \in {"boot", "aborted"})
    /\ [](mainpc = "aborted" =>
            /\ ~address_file.exists
            /\ session = "none" /\ calls = 0 /\ tasks = <<>>
            /\ value = THREADS /\ waiters = <<>>
            /\ csv = <<>>)
    /\ [](address_file.exists => mainpc \notin {"aborted", "raised", "crashed"})
    /\ (address_file.exists ~> (mainpc = "reported" /\ csv # <<>>))

\* C13 witness: the key file is missing and the run has aborted.
C13_Witness ==
    /\ mainpc = "aborted"
    /\ ~USE_ADDRESS_FILE
    /\ ~address_file.exists

\* C15: with THREADS >= 1 and a finite batch, every task that waits for a
\* slot is admitted, every task finishes, and check_all returns; for the
\* empty batch it returns the empty list.
C15_EveryTaskFinishes ==
    /\ \A i \in 1..MaxSourceLines :
          /\ (i \in Ids /\ pc[i] = "waiting") ~> (i \in Ids /\ pc[i] = "sleep")
          /\ (i \in Ids) ~> (i \in Ids /\ pc[i] = "done")
    /\ (mainpc = "gather") ~> Returned
    /\ []((Returned /\ addresses = <<>>) => ReturnValue = <<>>)

\* C15 witness: check_all has returned from a batch of two that shared one
\* slot, so one of them had to wait.
C15_Witness ==
    /\ mainpc = "returned"
    /\ THREADS = 1
    /\ Len(tasks) = 2
    /\ \A i \in Ids : pc[i] = "done"

\* ------------------------------------------------ order within a task
IsPrefix(s, t) == Len(s) <= Len(t) /\ SubSeq(t, 1, Len(s)) = s

\* What a task does from its first step to its last, as check_address
\* has it: the outcome is logged, and the address appended, with the slot
\* still held.
Lifecycles ==
    { <<"acquire", "sleep", "request", "WHITELISTED", "append", "release">>,
      <<"acquire", "sleep", "request", "NOT WHITELISTED", "release">>,
      <<"acquire", "sleep", "request", "error", "release">> }

\* The same with the slot released before the outcome is recorded.
ReleaseFirstLifecycles ==
    { <<"acquire", "sleep", "request", "release", "WHITELISTED", "append">>,
      <<"acquire", "sleep", "request", "release", "NOT WHITELISTED">>,
      <<"acquire", "sleep", "request", "release", "error">> }

\* C14 as the code has it: every task acquires a slot, sleeps, sends its
\* request, records its outcome (appending when whitelisted) and releases
\* the slot last; it sleeps and requests only while it holds the slot, and
\* sends no request before its sleep is over.
C14_RecordThenRelease ==
    \A i \in Ids :
       /\ \E t \in Lifecycles : IsPrefix(events[i], t)
       /\ pc[i] \in {"created", "waiting"} => events[i] = <<>>
       /\ pc[i] = "sleep" => events[i] = <<"acquire", "sleep">> /\ i \in Holding
       /\ pc[i] \in {"request", "json"} =>
             events[i] = <<"acquire", "sleep", "request">> /\ i \in Holding
       /\ pc[i] = "done" => events[i] \in Lifecycles /\ i \notin Holding

\* C14 as stated: the slot is released before the outcome is recorded.
C14_ReleaseThenRecord ==
    \A i \in Ids : \E t \in ReleaseFirstLifecycles : IsPrefix(events[i], t)

\* C14 witness: a whitelisted task is through, and another one, which got
\* its slot from it, is in its request.
C14_Witness ==
    /\ THREADS = 1
    /\ Len(tasks) >= 2
    /\ events[1] = <<"acquire", "sleep", "request", "WHITELISTED", "append", "release">>
    /\ pc[2] = "request"

\* -------------------------------------------------- order of admission
Admitted == {i \in Ids : pc[i] \notin {"created", "waiting"}}

\* C16: check_index is the place of the task in the task list, and the
\* tasks get their slots in that order: a task is admitted only after every
\* task with a smaller check_index.
C16_AdmittedInDispatchOrder ==
    /\ \A i \in Ids : tasks[i].check_index = i
    /\ \A i \in Ids, j \in Ids :
          (tasks[i].check_index < tasks[j].check_index /\ j \in Admitted) => i \in Admitted

\* C16 witness: three tasks on one slot; the first is through, the second
\* holds the slot, the third still waits.
C16_Witness ==
    /\ THREADS = 1
    /\ Len(tasks) = 3
    /\ pc[1] = "done"
    /\ pc[2] = "sleep"
    /\ pc[3] = "waiting"

\* C17: shuffled or not, a task's address is the original_index-th address
\* and its proxy the original_index-th proxy of the input.
C17_BindingKept ==
    \A i \in Ids :
       /\ tasks[i].original_index \in 1..Len(addresses)
       /\ tasks[i].address = addresses[tasks[i].original_index]
       /\ tasks[i].proxy = proxies[tasks[i].original_index]

\* C17 witness: a shuffle that moved every task, with proxies from the file.
C17_Witness ==
    /\ SHUFFLE
    /\ Len(tasks) = 3
    /\ \A i \in Ids : tasks[i].original_index # tasks[i].check_index
    /\ tasks[1].proxy = "p2"
    /\ tasks[1].address = "0xB"

\* ------------------------------------------------------- the session
\* C18: the session is open while a task sends or awaits its request; it
\* is opened before the tasks are made, and it is closed, and the results
\* file written, only when every task is through, the file from the list
\* as the last task left it.
C18_SessionOpenWhileUsed ==
    /\ \A i \in Ids : pc[i] \in {"request", "json"} => session = "open"
    /\ mainpc = "gather" => session = "open"
    /\ session = "none" => tasks = <<>>
    /\ session = "closed" => \A i \in Ids : pc[i] = "done"
    /\ csv # <<>> =>
          /\ session = "closed"
          /\ \A i \in Ids : pc[i] = "done"
          /\ csv = <<"Address">> \o whitelisted_addresses

\* C18 witness: the file is written, with a row for a whitelisted address,
\* after two tasks that are both through.
C18_Witness ==
    /\ mainpc = "reported"
    /\ session = "closed"
    /\ Len(tasks) = 2
    /\ Len(csv) = 2
    /\ resp[1] = "error"
====
